---- MODULE Spec2Model ----
(***************************************************************************)
(* A model of the daylight library (src/src/lib.rs): calculate_daylight    *)
(* and the helpers it is built from.                                       *)
(*                                                                         *)
(* Numbers.  The library computes in f64.  The model computes in a binary  *)
(* floating-point format of the same shape with a shorter mantissa: a      *)
(* value is <<m, e>>, the number m * 2^e, with m = 0 (and e = 0) or        *)
(* 2^(MantBits-1) <= |m| < 2^MantBits, and every operation returns the     *)
(* exact result rounded to MantBits bits, ties to even, as IEEE 754 does.  *)
(* The exponent is unbounded (no underflow, no infinity) and -0.0 is not   *)
(* told from +0.0.  The libm functions (sin, cos, tan, asin, atan2) are    *)
(* evaluated on a fixed grid of 2^-FixBits radians and their results are   *)
(* rounded to the format.                                                  *)
(***************************************************************************)
EXTENDS Integers, Sequences, FiniteSets, TLC

\* Bits of the mantissa of the model's floating-point format (f64: 53).
MantBits == 27

\* Fraction bits of the grid the libm functions are evaluated on.
FixBits == 26

Abs(n) == IF n < 0 THEN -n ELSE n

Sgn(n) == IF n < 0 THEN -1 ELSE IF n > 0 THEN 1 ELSE 0

Min(a, b) == IF a <= b THEN a ELSE b

Max(a, b) == IF a >= b THEN a ELSE b

\* The number of bits of 0 <= n < 16 (0 for 0).
BitLen4(n) == IF n < 4 THEN (IF n < 2 THEN n ELSE 2) ELSE IF n < 8 THEN 3 ELSE 4

\* The number of bits of 0 <= n < 256.
BitLen8(n) == IF n < 16 THEN BitLen4(n) ELSE 4 + BitLen4(n \div 16)

RECURSIVE BitLen(_)
\* The number of bits of 0 <= n < 2^31, eight bits at a time.
BitLen(n) == IF n < 256 THEN BitLen8(n) ELSE 8 + BitLen(n \div 256)

\* n >= 0 without its k low bits, rounded to nearest, ties to even; sticky
\* says that the exact value lies strictly above n (bits below n's were lost).
RoundShift(n, k, sticky) ==
    IF k = 0 THEN n
    ELSE LET q == n \div (2^k)
             r == n % (2^k)
             half == 2^(k - 1)
         IN IF r > half \/ (r = half /\ (sticky \/ q % 2 = 1)) THEN q + 1 ELSE q

\* The float nearest to sgn * (n + s) * 2^e, for an integer n >= 0 and a
\* fraction 0 <= s < 1 that is nonzero exactly when sticky holds.  A sticky n
\* must have more than MantBits bits.
NormS(sgn, n, e, sticky) ==
    LET Carry(q, k) ==
            IF q = 2^MantBits THEN <<sgn * 2^(MantBits - 1), e + k + 1>>
            ELSE <<sgn * q, e + k>>
        Cut(k) == Carry(RoundShift(n, k, sticky), k)
        Fit(len) ==
            IF len <= MantBits
            THEN <<sgn * n * 2^(MantBits - len), e - (MantBits - len)>>
            ELSE Cut(len - MantBits)
    IN IF n = 0 THEN <<0, 0>> ELSE Fit(BitLen(n))

\* The float nearest to the integer multiple m * 2^e.
Norm(m, e) == NormS(Sgn(m), Abs(m), e, FALSE)

\* An integer (|n| < 2^31) as a float: `n as f64`.
FromInt(n) == Norm(n, 0)

FZero == <<0, 0>>

FNeg(x) == <<-x[1], x[2]>>

FAbs(x) == <<Abs(x[1]), x[2]>>

\* f64::is_sign_negative (the model has no -0.0).
IsSignNegative(x) == x[1] < 0

\* x + y for |x| >= |y| > 0 in exponent order (x[2] >= y[2]), x > 0: the
\* sum is an integer multiple of 2^y[2], or of 2^(x[2] - 2) and a fraction.
AddOrdered(x, y) ==
    LET Round(m, e, sticky) == NormS(Sgn(m), Abs(m), e, sticky)
        Shifted(d) ==
            IF d > MantBits + 2 THEN x
            ELSE IF d <= 2 THEN Round(x[1] * 2^d + y[1], y[2], FALSE)
            ELSE Round(4 * x[1] + y[1] \div (2^(d - 2)), x[2] - 2,
                       y[1] % (2^(d - 2)) # 0)
    IN Shifted(x[2] - y[2])

\* x + y, correctly rounded.
FAdd(x, y) ==
    LET Signed(sgn, z) == <<sgn * z[1], z[2]>>
        Ordered(sgn, big, small) ==
            Signed(sgn, AddOrdered(Signed(sgn, big), Signed(sgn, small)))
        Sorted(p) == Ordered(Sgn(p[1][1]), p[1], p[2])
    IN IF x[1] = 0 THEN y
       ELSE IF y[1] = 0 THEN x
       ELSE Sorted(IF x[2] >= y[2] THEN <<x, y>> ELSE <<y, x>>)

FSub(x, y) == FAdd(x, FNeg(y))

\* Comparisons: a rounded difference has the sign of the exact one.
FLt(x, y) == FSub(x, y)[1] < 0

FLe(x, y) == FSub(x, y)[1] <= 0

\* x * y, correctly rounded: the exact product of the mantissas is
\* hi * 2^28 + lo, from their 14-bit halves.
FMul(x, y) ==
    LET g == 30 - MantBits
        Round(hi, lo) ==
            NormS(Sgn(x[1]) * Sgn(y[1]),
                  hi * 2^g + lo \div (2^(28 - g)),
                  x[2] + y[2] + 28 - g,
                  lo % (2^(28 - g)) # 0)
        Sum(high, low) == Round(high + low \div (2^28), low % (2^28))
        Parts(high, mid, low) ==
            Sum(high + mid \div 16384, (mid % 16384) * 16384 + low)
        Halves(a1, a0, b1, b0) == Parts(a1 * b1, a1 * b0 + a0 * b1, a0 * b0)
        Product(a, b) ==
            Halves(a \div 16384, a % 16384, b \div 16384, b % 16384)
    IN IF x[1] = 0 \/ y[1] = 0 THEN FZero
       ELSE Product(Abs(x[1]), Abs(y[1]))

RECURSIVE LongDiv(_, _, _)
\* k more quotient bits of r / b (r < b < 2^MantBits), as many at a time as
\* 32 bits hold: <<quotient, remainder>> from qr = <<q, r>>.  After a zero
\* remainder the bits are zeros.
LongDiv(qr, b, k) ==
    IF k = 0 \/ qr[2] = 0 THEN <<qr[1] * 2^k, qr[2]>>
    ELSE LET c == Min(k, 31 - MantBits)
         IN LongDiv(<<2^c * qr[1] + (2^c * qr[2]) \div b, (2^c * qr[2]) % b>>,
                    b, k - c)

\* x / y for y # 0, correctly rounded.
FDiv(x, y) ==
    LET Round(qr) ==
            NormS(Sgn(x[1]) * Sgn(y[1]), qr[1], x[2] - y[2] - (MantBits + 1),
                  qr[2] # 0)
        Quotient(a, b) == Round(LongDiv(<<a \div b, a % b>>, b, MantBits + 1))
    IN IF x[1] = 0 THEN FZero ELSE Quotient(Abs(x[1]), Abs(y[1]))

\* f64::floor
FFloor(x) ==
    IF x[2] >= 0 THEN x
    ELSE IF -x[2] >= MantBits THEN (IF x[1] < 0 THEN FromInt(-1) ELSE FZero)
    ELSE Norm(x[1] \div (2^(-x[2])), 0)

FMin(x, y) == IF FLt(y, x) THEN y ELSE x

FMax(x, y) == IF FLt(x, y) THEN y ELSE x

\* The decimal literal n / 10^k of the source, as rustc rounds it.
Lit(n, k) == FDiv(FromInt(n), FromInt(10^k))

\* pi * 2^29, rounded to nearest: std::f64::consts::PI to 31 bits.
PiHi == 1686629713

\* std::f64::consts::PI
PI == Norm(PiHi, -29)

\* std::f64::consts::FRAC_PI_2: PI / 2, exact in a binary format.
FRAC_PI_2 == Norm(PiHi, -30)

\* 1.0 on the grid of the libm functions.
FixOne == 2^FixBits

\* A float as a multiple of 2^-FixBits (rounded to nearest), for |x| < 32;
\* what is below half a grid step is 0.
ToFix(x) ==
    LET Scaled(s) ==
            IF s >= 0 THEN x[1] * 2^s
            ELSE IF -s > MantBits THEN 0
            ELSE Sgn(x[1]) * RoundShift(Abs(x[1]), -s, FALSE)
    IN Scaled(x[2] + FixBits)

FromFix(n) == Norm(n, -FixBits)

\* pi/2, pi and 2 pi on the grid: the libm functions take the format's PI
\* for pi, as libm reduces its argument with pi to more bits than the format.
FixHalfPi == ToFix(FRAC_PI_2)

FixPi == 2 * FixHalfPi

FixTwoPi == 4 * FixHalfPi

\* floor(a * b / 2^FixBits) for 0 <= a, b < 2^28, from 13-bit halves.
FixMul(a, b) ==
    LET Halves(a1, a0, b1, b0) ==
            a1 * b1 * 2^(26 - FixBits)
            + (a1 * b0 + a0 * b1 + (a0 * b0) \div 8192) \div (2^(FixBits - 13))
    IN Halves(a \div 8192, a % 8192, b \div 8192, b % 8192)

\* sin on [0, pi/2]: the Taylor series to x^15, in Horner form; Term is
\* 1 - x2 * t / n on the grid.
SinQ(u) ==
    LET x2 == FixMul(u, u)
        Term[t \in Int, n \in Int] == FixOne - FixMul(x2, t) \div n
        t1 == Term[Term[Term[Term[Term[Term[Term[FixOne, 210], 156], 110],
                                       72], 42], 20], 6]
    IN Min(FixMul(u, t1), FixOne)

\* sin of a grid angle, by quadrants; odd by construction.
SinFix(t) ==
    LET Quadrant(u, h) ==
            IF u <= h THEN <<1, u>>
            ELSE IF u <= 2 * h THEN <<1, 2 * h - u>>
            ELSE IF u <= 3 * h THEN <<-1, u - 2 * h>>
            ELSE <<-1, 4 * h - u>>
        Folded(q) == q[1] * SinQ(q[2])
    IN Folded(Quadrant(t % FixTwoPi, FixHalfPi))

CosFix(t) == SinFix(t + FixHalfPi)

\* f64::sin
Sin(x) == FromFix(SinFix(ToFix(x)))

\* f64::cos
Cos(x) == FromFix(CosFix(ToFix(x)))

\* What tan returns at the format's pi/2, where the grid's cosine is 0: libm
\* returns a large finite value of the sine's sign (1.6e16 in f64).
TanPole == <<2^(MantBits - 1), 1>>

\* f64::tan
Tan(x) ==
    LET Ratio(s, c) ==
            IF c = 0 THEN (IF s < 0 THEN FNeg(TanPole) ELSE TanPole)
            ELSE FDiv(FromFix(s), FromFix(c))
        At(t) == Ratio(SinFix(t), CosFix(t))
    IN At(ToFix(x))

RECURSIVE AsinBisect(_, _, _)
\* The largest grid angle u in [lo, hi) with SinQ(u) <= v, by bisection,
\* four halvings at a time; Half leaves an interval of one angle as it is.
AsinBisect(v, lo, hi) ==
    IF hi - lo <= 1 THEN lo
    ELSE LET Half[p \in Int \X Int] ==
                 IF p[2] - p[1] <= 1 THEN p
                 ELSE IF SinQ((p[1] + p[2]) \div 2) <= v
                      THEN <<(p[1] + p[2]) \div 2, p[2]>>
                      ELSE <<p[1], (p[1] + p[2]) \div 2>>
             p == Half[Half[Half[Half[<<lo, hi>>]]]]
         IN AsinBisect(v, p[1], p[2])

\* f64::asin on [-1, 1]: asin(1) is exactly FRAC_PI_2, as in libm.
Asin(x) ==
    LET Signed(sgn, z) == <<sgn * z[1], z[2]>>
        Of(v) ==
            Signed(IF v < 0 THEN -1 ELSE 1,
                   IF Abs(v) >= FixOne THEN FRAC_PI_2
                   ELSE FromFix(AsinBisect(Abs(v), 0, FixHalfPi)))
    IN Of(ToFix(x))

RECURSIVE AtanBisect(_, _, _, _)
\* The largest grid angle u in [lo, hi) with sin(u) * x <= cos(u) * y, for
\* x, y >= 0: the first-quadrant angle of the point (x, y).  Four halvings
\* at a time, as in AsinBisect.
AtanBisect(y, x, lo, hi) ==
    IF hi - lo <= 1 THEN lo
    ELSE LET Half[p \in Int \X Int] ==
                 IF p[2] - p[1] <= 1 THEN p
                 ELSE IF FixMul(SinQ((p[1] + p[2]) \div 2), x)
                         <= FixMul(SinQ(FixHalfPi - (p[1] + p[2]) \div 2), y)
                      THEN <<(p[1] + p[2]) \div 2, p[2]>>
                      ELSE <<p[1], (p[1] + p[2]) \div 2>>
             p == Half[Half[Half[Half[<<lo, hi>>]]]]
         IN AtanBisect(y, x, p[1], p[2])

\* f64::atan2 (self = y), for |y|, |x| <= 4.
Atan2(y, x) ==
    LET Angle(fy, fx, u) ==
            FromFix((IF fy < 0 THEN -1 ELSE 1) * (IF fx < 0 THEN FixPi - u ELSE u))
        Of(fy, fx) ==
            Angle(fy, fx,
                  IF fx = 0 THEN (IF fy = 0 THEN 0 ELSE FixHalfPi)
                  ELSE AtanBisect(Abs(fy), Abs(fx), 0, FixHalfPi))
    IN Of(ToFix(y), ToFix(x))

(***************************************************************************)
(* i64.  A value is <<a, b, c>>, the integer a * 10^18 + b * 10^9 + c with *)
(* 0 <= b, c < 10^9, so that the full width of an i64 is kept.             *)
(***************************************************************************)
Limb == 10^9

I64Norm(a, b, c) ==
    LET b1 == b + c \div Limb
    IN <<a + b1 \div Limb, b1 % Limb, c % Limb>>

I64FromInt(n) == I64Norm(0, 0, n)

I64_MAX == <<9, 223372036, 854775807>>

I64_MIN == <<-10, 776627963, 145224192>>

\* 2^64, the modulus of wrapping i64 arithmetic.
TwoTo64 == <<18, 446744073, 709551616>>

\* The exact sum and difference (they may leave the range of an i64).
I64Sum(x, y) == I64Norm(x[1] + y[1], x[2] + y[2], x[3] + y[3])

I64Diff(x, y) == I64Norm(x[1] - y[1], x[2] - y[2], x[3] - y[3])

I64Less(x, y) ==
    \/ x[1] < y[1]
    \/ x[1] = y[1] /\ x[2] < y[2]
    \/ x[1] = y[1] /\ x[2] = y[2] /\ x[3] < y[3]

I64Leq(x, y) == x = y \/ I64Less(x, y)

InI64(x) == I64Leq(I64_MIN, x) /\ I64Leq(x, I64_MAX)

\* i64::wrapping_add's result for an exact sum s.
I64Wrap(s) ==
    IF I64Less(I64_MAX, s) THEN I64Diff(s, TwoTo64)
    ELSE IF I64Less(s, I64_MIN) THEN I64Sum(s, TwoTo64)
    ELSE s

\* The carry and the low limb of c * f, for a limb c and 0 <= f <= 2^16.
LimbTimes(c, f) ==
    LET p2 == (c \div 1000000) * f
        p1 == ((c \div 1000) % 1000) * f
        p0 == (c % 1000) * f
        low == (p2 % 1000) * 1000000 + (p1 % 1000000) * 1000 + p0
    IN <<p2 \div 1000 + p1 \div 1000000 + low \div Limb, low % Limb>>

\* x * f for 0 <= f <= 2^16
I64Times(x, f) ==
    LET c == LimbTimes(x[3], f)
        b == LimbTimes(x[2], f)
    IN I64Norm(x[1] * f + b[1], b[2] + c[1], c[2])

\* x * 2^k for k <= 64
I64Shl(x, k) ==
    I64Times(I64Times(I64Times(I64Times(x, 2^Min(k, 16)),
                                        2^Min(Max(k - 16, 0), 16)),
                               2^Min(Max(k - 32, 0), 16)),
             2^Min(Max(k - 48, 0), 16))

\* An i64 of at most 31 bits as an integer.
I64ToInt(x) == (x[1] * Limb + x[2]) * Limb + x[3]

\* A cast that rounds to the nearest integer instead of truncating (for
\* values below 2^MantBits): what `x as i64` does not do.
AsI64Nearest(x) ==
    IF x[1] = 0 THEN I64FromInt(0)
    ELSE IF x[2] < 0
         THEN IF -x[2] > MantBits + 1 THEN I64FromInt(0)
              ELSE I64FromInt(Sgn(x[1]) * RoundShift(Abs(x[1]), -x[2], FALSE))
    ELSE IF BitLen(Abs(x[1])) + x[2] > 63
         THEN (IF x[1] > 0 THEN I64_MAX ELSE I64_MIN)
    ELSE I64Shl(I64FromInt(x[1]), x[2])

\* `x as i64` for an f64: truncation toward zero, saturating at the ends of
\* the range (Rust 1.45 and later).
AsI64(x) ==
    IF x[1] = 0 THEN I64FromInt(0)
    ELSE IF x[2] < 0
         THEN IF -x[2] > MantBits THEN I64FromInt(0)
              ELSE I64FromInt(Sgn(x[1]) * (Abs(x[1]) \div 2^(-x[2])))
    ELSE IF BitLen(Abs(x[1])) + x[2] > 63
         THEN (IF x[1] > 0 THEN I64_MAX ELSE I64_MIN)
    ELSE I64Shl(I64FromInt(x[1]), x[2])

(***************************************************************************)
(* The time crate: Tm, Timespec, Duration.  A Tm is a record of the fields *)
(* that decide an instant (tm_wday, tm_yday and tm_isdst do not); a        *)
(* Timespec is [sec, nsec] with sec an i64.                                *)
(***************************************************************************)
SecsPerDay == 24 * 3600

\* Days from 1970-01-01 to the civil date y-m-d (proleptic Gregorian).
DaysFromCivil(y, m, d) ==
    LET y1 == IF m <= 2 THEN y - 1 ELSE y
        era == y1 \div 400
        yoe == y1 - era * 400
        doy == (153 * (IF m > 2 THEN m - 3 ELSE m + 9) + 2) \div 5 + d - 1
        doe == yoe * 365 + yoe \div 4 - yoe \div 100 + doy
    IN era * 146097 + doe - 719468

\* The civil date <<y, m, d>> of a day count from 1970-01-01.
CivilFromDays(z) ==
    LET z1 == z + 719468
        era == z1 \div 146097
        doe == z1 - era * 146097
        yoe == (doe - doe \div 1460 + doe \div 36524 - doe \div 146096) \div 365
        doy == doe - (365 * yoe + yoe \div 4 - yoe \div 100)
        mp == (5 * doy + 2) \div 153
        d == doy - (153 * mp + 2) \div 5 + 1
        m == IF mp < 10 THEN mp + 3 ELSE mp - 9
    IN <<IF m <= 2 THEN yoe + era * 400 + 1 ELSE yoe + era * 400, m, d>>

\* timegm: the fields read as UTC.
utc_tm_to_time(tm) ==
    DaysFromCivil(tm.tm_year + 1900, tm.tm_mon + 1, tm.tm_mday) * SecsPerDay
    + tm.tm_hour * 3600 + tm.tm_min * 60 + tm.tm_sec

\* Tm::to_timespec: timegm for a UTC Tm, else mktime, which reads the fields
\* in the zone of the process: the zone the Tm was made in, tm_utcoff.
to_timespec(tm) ==
    [sec |-> I64FromInt(IF tm.tm_utcoff = 0 THEN utc_tm_to_time(tm)
                        ELSE utc_tm_to_time(tm) - tm.tm_utcoff),
     nsec |-> tm.tm_nsec]

\* time::at_utc: the UTC fields of an instant.
at_utc(ts) ==
    LET s == I64ToInt(ts.sec)
        civil == CivilFromDays(s \div SecsPerDay)
        r == s % SecsPerDay
    IN [tm_sec |-> r % 60, tm_min |-> (r \div 60) % 60, tm_hour |-> r \div 3600,
        tm_mday |-> civil[3], tm_mon |-> civil[2] - 1,
        tm_year |-> civil[1] - 1900, tm_utcoff |-> 0, tm_nsec |-> ts.nsec]

\* A to_utc that leaves the fields as they are.
ToUtcIdentity(tm) == tm

\* Tm::to_utc
to_utc(tm) == IF tm.tm_utcoff = 0 THEN tm ELSE at_utc(to_timespec(tm))

\* Tm - Tm, then Duration::num_seconds (the Tm's of the model have
\* tm_nsec = 0).
TmDiffSeconds(a, b) == I64ToInt(I64Diff(to_timespec(a).sec, to_timespec(b).sec))

(***************************************************************************)
(* The library.                                                            *)
(***************************************************************************)
SUNRADIUS == Lit(53, 2)

AIRREFR == FDiv(FromInt(34), FromInt(60))

Y2000 ==
    [tm_sec |-> 0, tm_min |-> 0, tm_hour |-> 0, tm_mday |-> 1, tm_mon |-> 0,
     tm_year |-> 100, tm_utcoff |-> 0, tm_nsec |-> 0]

SECS_IN_HOUR == FromInt(3600)

HOURS_IN_DAY == FromInt(24)

FRAC_HOURS_IN_DAY_2 == FromInt(12)

to_radians(target) == FMul(target, FDiv(PI, FromInt(180)))

to_degrees(target) == FMul(target, FDiv(FromInt(180), PI))

fnrange(x) ==
    LET Wrapped(a) ==
            IF IsSignNegative(a) THEN FAdd(a, FMul(PI, FromInt(2))) ELSE a
        Turn(b) == Wrapped(FMul(FMul(PI, FromInt(2)), FSub(b, FFloor(b))))
    IN Turn(FDiv(FMul(Lit(5, 1), x), PI))

\* The product without the change of sign for a southern latitude.
AngleProductNoFlip(lat, declin, fraction) ==
    FMul(Tan(FAdd(declin, fraction)), Tan(lat))

\* The local f of calculate_angle: the product the arcsine is taken of.
AngleProduct(lat, declin, fraction) ==
    LET df == IF IsSignNegative(lat) THEN FNeg(fraction) ELSE fraction
    IN FMul(Tan(FAdd(declin, df)), Tan(lat))

\* calculate_angle with the lower clamp at 0 instead of -1.
CalculateAngleClampZero(lat, declin, fraction) ==
    LET f == AngleProduct(lat, declin, fraction)
    IN FAdd(Asin(FMax(FMin(f, FromInt(1)), FromInt(0))), FRAC_PI_2)

calculate_angle(lat, declin, fraction) ==
    LET f == AngleProduct(lat, declin, fraction)
    IN FAdd(Asin(FMax(FMin(f, FromInt(1)), FromInt(-1))), FRAC_PI_2)

\* The offsets of f0 and f1.
Df0 == to_radians(FAdd(FMul(Lit(5, 1), SUNRADIUS), AIRREFR))

Df1 == to_radians(FromInt(6))

f0(lat, declin) == calculate_angle(lat, declin, Df0)

f1(lat, declin) == calculate_angle(lat, declin, Df1)

\* The mean longitude and the mean anomaly g of fnsun.
SunMean(d) ==
    [mean_longitude |->
         fnrange(FAdd(to_radians(Lit(280461, 3)),
                      FMul(to_radians(Lit(9856474, 7)), d))),
     g |-> fnrange(FAdd(to_radians(Lit(357528, 3)),
                        FMul(to_radians(Lit(9856003, 7)), d)))]

\* The ecliptic longitude of fnsun, added to its mean longitude and g.
SunEcliptic(s) ==
    s @@ [ecliptic_longitude |->
              fnrange(FAdd(FAdd(s.mean_longitude,
                                FMul(to_radians(Lit(1915, 3)), Sin(s.g))),
                           FMul(to_radians(Lit(2, 2)),
                                Sin(FMul(FromInt(2), s.g)))))]

\* The pair (ecliptic_longitude, mean_longitude), as a record.
fnsun(d) == SunEcliptic(SunMean(d))

days_since_2000(date) ==
    FDiv(FromInt(TmDiffSeconds(date, Y2000)), FMul(HOURS_IN_DAY, SECS_IN_HOUR))

\* The sum midnight.sec + (hours * SECS_IN_HOUR) as i64, exact.
HoursSum(midnight, hours) == I64Sum(midnight.sec, AsI64(FMul(hours, SECS_IN_HOUR)))

\* The sum wraps where the build does not check overflow (where it does,
\* the call panics: see CalculateDaylight).
daylight_hours_to_timespec(midnight, hours) ==
    [sec |-> I64Wrap(HoursSum(midnight, hours)), nsec |-> 0]

\* The altitude without the fold for a latitude south of the declination.
AltmaxUnfolded(lat_rad, delta) == FSub(FAdd(FRAC_PI_2, delta), lat_rad)

\* The local altmax of calculate_daylight.
Altmax(lat_rad, delta) ==
    LET altmax_nh == FSub(FAdd(FRAC_PI_2, delta), lat_rad)
    IN IF FLt(lat_rad, delta) THEN FSub(PI, altmax_nh) ELSE altmax_nh

\* The locals of calculate_daylight, a record that grows block by block of
\* the function.  First the latitude in radians and the moment in UTC.
LocalsUtc(date, latitude, longitude) ==
    [longitude |-> longitude, lat_rad |-> to_radians(latitude),
     utc |-> to_utc(date)]

\* The days since 2000 and the midnight reference, from the UTC moment.
LocalsD2000(l) ==
    l @@ [d2000 |-> days_since_2000(l.utc),
          tsmidnight |->
              to_timespec([l.utc EXCEPT !.tm_nsec = 0, !.tm_sec = 0,
                                        !.tm_min = 0, !.tm_hour = 0])]

\* sun = (ecliptic_longitude, mean_longitude) and the obliquity.
LocalsSun(l) ==
    l @@ [sun |-> fnsun(l.d2000),
          obliq |-> FSub(to_radians(Lit(23439, 3)),
                         FMul(to_radians(Lit(4, 7)), l.d2000))]

\* The right ascension and the declination.
LocalsDelta(l) ==
    l @@ [alpha |-> Atan2(FMul(Cos(l.obliq), Sin(l.sun.ecliptic_longitude)),
                          Cos(l.sun.ecliptic_longitude)),
          delta |-> Asin(FMul(Sin(l.obliq), Sin(l.sun.ecliptic_longitude)))]

\* The equation of time in hours, from mean_longitude - alpha.
Equation(mean_longitude_corr) ==
    FMul(HOURS_IN_DAY,
         FSub(FromInt(1),
              FDiv(IF FLt(mean_longitude_corr, PI)
                   THEN FAdd(mean_longitude_corr, FMul(PI, FromInt(2)))
                   ELSE mean_longitude_corr,
                   FMul(PI, FromInt(2)))))

\* The equation of time, the hour angles and the altitude at noon.
LocalsHa(l) ==
    l @@ [equation |-> Equation(FSub(l.sun.mean_longitude, l.alpha)),
          ha |-> f0(l.lat_rad, l.delta),
          hb |-> f1(l.lat_rad, l.delta),
          altmax |-> Altmax(l.lat_rad, l.delta)]

\* The length of twilight and of half the day, in hours.
LocalsHalfday(l) ==
    l @@ [twx |-> FDiv(FMul(FRAC_HOURS_IN_DAY_2, FSub(l.hb, l.ha)), PI),
          halfday |-> FDiv(FMul(FRAC_HOURS_IN_DAY_2, l.ha), PI)]

\* Sunrise and sunset, in hours from UTC midnight.
LocalsRiset(l) ==
    l @@ [riset |-> FAdd(FSub(FSub(FRAC_HOURS_IN_DAY_2, l.halfday),
                              FDiv(l.longitude, FromInt(15))), l.equation),
          settm |-> FAdd(FSub(FAdd(FRAC_HOURS_IN_DAY_2, l.halfday),
                              FDiv(l.longitude, FromInt(15))), l.equation)]

\* Noon and the twilights.
LocalsNoon(l) ==
    l @@ [noon |-> FAdd(l.riset, l.halfday),
          twam |-> FSub(l.riset, l.twx),
          twpm |-> FAdd(l.settm, l.twx)]

\* All the locals of a call.
Locals(date, latitude, longitude) ==
    LocalsNoon(LocalsRiset(LocalsHalfday(LocalsHa(LocalsDelta(LocalsSun(
        LocalsD2000(LocalsUtc(date, latitude, longitude))))))))

\* A Daylight whose daylength is the half day.
DaylightOfHalfDay(l) ==
    [twilight_morning |-> daylight_hours_to_timespec(l.tsmidnight, l.twam),
     sunrise |-> daylight_hours_to_timespec(l.tsmidnight, l.riset),
     sunset |-> daylight_hours_to_timespec(l.tsmidnight, l.settm),
     twilight_evening |-> daylight_hours_to_timespec(l.tsmidnight, l.twpm),
     noon |-> daylight_hours_to_timespec(l.tsmidnight, l.noon),
     declination |-> to_degrees(l.delta),
     daylength |-> AsI64(FMul(l.halfday, SECS_IN_HOUR)),
     sun_altitude |-> to_degrees(l.altmax)]

\* A Daylight whose noon is 12:00 UTC.
DaylightOfNoonAtTwelve(l) ==
    [twilight_morning |-> daylight_hours_to_timespec(l.tsmidnight, l.twam),
     sunrise |-> daylight_hours_to_timespec(l.tsmidnight, l.riset),
     sunset |-> daylight_hours_to_timespec(l.tsmidnight, l.settm),
     twilight_evening |-> daylight_hours_to_timespec(l.tsmidnight, l.twpm),
     noon |-> daylight_hours_to_timespec(l.tsmidnight, FRAC_HOURS_IN_DAY_2),
     declination |-> to_degrees(l.delta),
     daylength |-> AsI64(FMul(FMul(l.halfday, SECS_IN_HOUR), FromInt(2))),
     sun_altitude |-> to_degrees(l.altmax)]

\* The Daylight value built from the locals.
DaylightOf(l) ==
    [twilight_morning |-> daylight_hours_to_timespec(l.tsmidnight, l.twam),
     sunrise |-> daylight_hours_to_timespec(l.tsmidnight, l.riset),
     sunset |-> daylight_hours_to_timespec(l.tsmidnight, l.settm),
     twilight_evening |-> daylight_hours_to_timespec(l.tsmidnight, l.twpm),
     noon |-> daylight_hours_to_timespec(l.tsmidnight, l.noon),
     declination |-> to_degrees(l.delta),
     daylength |-> AsI64(FMul(FMul(l.halfday, SECS_IN_HOUR), FromInt(2))),
     sun_altitude |-> to_degrees(l.altmax)]

calculate_daylight(date, latitude, longitude) ==
    DaylightOf(Locals(date, latitude, longitude))

(***************************************************************************)
(* The state machine: one call of a function of the library on an input    *)
(* drawn by Init.                                                          *)
(***************************************************************************)
VARIABLES
    pc,               \* "start", then "done" or "panicked"
    instant,          \* the epoch second the input moment denotes
    date,             \* the input moment, a Tm
    latitude,         \* the input latitude in degrees, an f64
    longitude,        \* the input longitude in degrees, an f64
    overflow_checks,  \* whether the build checks integer overflow
    locals,           \* the locals of the call of calculate_daylight
    daylight,         \* the Daylight returned
    args,             \* the arguments of a call of fnrange or calculate_angle
    result            \* what that call returned

vars ==
    <<pc, instant, date, latitude, longitude, overflow_checks, locals,
      daylight, args, result>>

None == [none |-> TRUE]

\* The input grid.
MaxDateIdx == 3

MaxLatIdx == 12

MaxLongExp == 7

MaxRangeExp == 70

\* 21 December 1999 at noon, then every five years and a quarter less half
\* an hour: the seasons and the hours of the day in turn.
InstantAt(i) ==
    utc_tm_to_time([tm_sec |-> 0, tm_min |-> 0, tm_hour |-> 12, tm_mday |-> 21,
                    tm_mon |-> 11, tm_year |-> 99, tm_utcoff |-> 0,
                    tm_nsec |-> 0])
    + i * (1917 * SecsPerDay + 41400)

Instants == {InstantAt(i) : i \in 0..MaxDateIdx}

\* The UTC offsets of the input moments, in seconds.
UtcOffsets == {0, 3600, -36000}

\* The moment of epoch second t as a Tm of offset o: time::at in that zone.
LocalTm(t, o) ==
    [at_utc([sec |-> I64FromInt(t + o), nsec |-> 0]) EXCEPT !.tm_utcoff = o]

Latitudes == {FromInt(-90 + (180 \div MaxLatIdx) * i) : i \in 0..MaxLatIdx}

Longitudes == {FromInt(-180), Lit(597, 2), FromInt(180)}

\* Latitudes outside [-90, 90] too, and longitudes of every magnitude.
WideLatitudes == {FromInt(-1000), FromInt(-90), FromInt(52), FromInt(135)}

WideLongitudes == {Norm(s, 10 * k) : s \in {-1, 1}, k \in 0..MaxLongExp}

\* The arguments of fnrange: small and large, of both signs.
RangeInputs ==
    {Norm(m, 3 - k) : m \in {-7, -3, -1, 0, 1, 5, PiHi}, k \in 0..MaxRangeExp}

\* The arguments of calculate_angle, in radians.
AngleInputs ==
    {<<to_radians(la), to_radians(FromInt(de)), fr>> :
        la \in Latitudes, de \in {-24, -12, 0, 12, 24},
        fr \in {Df0, Df1, FZero, FNeg(Df1)}}

NoCall == args = <<>> /\ result = None

NoDaylight ==
    /\ instant = 0
    /\ date = None
    /\ latitude = FZero
    /\ longitude = FZero
    /\ overflow_checks = FALSE
    /\ locals = None
    /\ daylight = None

\* A moment of any of the zones, a latitude in [-90, 90] and a longitude in
\* [-180, 180].
InitInRange ==
    /\ pc = "start"
    /\ instant \in Instants
    /\ \E o \in UtcOffsets : date = LocalTm(instant, o)
    /\ latitude \in Latitudes
    /\ longitude \in Longitudes
    /\ overflow_checks \in BOOLEAN
    /\ locals = None
    /\ daylight = None
    /\ NoCall

\* A latitude and a longitude of any size.
InitWide ==
    /\ pc = "start"
    /\ instant \in {InstantAt(0), InstantAt(MaxDateIdx)}
    /\ date = LocalTm(instant, 0)
    /\ latitude \in WideLatitudes
    /\ longitude \in WideLongitudes
    /\ overflow_checks \in BOOLEAN
    /\ locals = None
    /\ daylight = None
    /\ NoCall

Init == InitInRange \/ InitWide

InitRange ==
    /\ pc = "start"
    /\ NoDaylight
    /\ \E x \in RangeInputs : args = <<x>>
    /\ result = None

InitAngle ==
    /\ pc = "start"
    /\ NoDaylight
    /\ args \in AngleInputs
    /\ result = None

\* The five sums of daylight_hours_to_timespec all fit an i64.
SumsFit(l) ==
    \A h \in {l.twam, l.riset, l.settm, l.twpm, l.noon} :
        InI64(HoursSum(l.tsmidnight, h))

\* calculate_daylight: an overflowing sum panics where overflow is checked.
CalculateDaylight ==
    /\ pc = "start"
    /\ locals' = Locals(date, latitude, longitude)
    /\ IF overflow_checks /\ ~SumsFit(locals')
       THEN pc' = "panicked" /\ daylight' = None
       ELSE pc' = "done" /\ daylight' = DaylightOf(locals')
    /\ UNCHANGED <<instant, date, latitude, longitude, overflow_checks, args,
                   result>>

Fnrange ==
    /\ pc = "start"
    /\ pc' = "done"
    /\ result' = fnrange(args[1])
    /\ UNCHANGED <<instant, date, latitude, longitude, overflow_checks,
                   locals, daylight, args>>

CalculateAngle ==
    /\ pc = "start"
    /\ pc' = "done"
    /\ result' = calculate_angle(args[1], args[2], args[3])
    /\ UNCHANGED <<instant, date, latitude, longitude, overflow_checks,
                   locals, daylight, args>>

Next == CalculateDaylight

NextRange == Fnrange

NextAngle == CalculateAngle

\* calculate_daylight
Spec == Init /\ [][Next]_vars

\* fnrange on any finite argument.
SpecRange == InitRange /\ [][NextRange]_vars

\* calculate_angle
SpecAngle == InitAngle /\ [][NextAngle]_vars

(***************************************************************************)
(* The properties.                                                         *)
(***************************************************************************)
\* A latitude in [-90, 90] and a longitude in [-180, 180].
InRange ==
    /\ FLe(FAbs(latitude), FromInt(90))
    /\ FLe(FAbs(longitude), FromInt(180))

\* The second of a Timespec of the calendar range.
Sec(ts) == I64ToInt(ts.sec)

\* The five instants of a Daylight with the hours they are made from.
InstantHours ==
    {<<daylight.twilight_morning, locals.twam>>,
     <<daylight.sunrise, locals.riset>>,
     <<daylight.noon, locals.noon>>,
     <<daylight.sunset, locals.settm>>,
     <<daylight.twilight_evening, locals.twpm>>}

\* C1: for a latitude in [-90, 90] and a longitude in [-180, 180] the
\* instants of the result are in the order twilight_morning <= sunrise <=
\* noon <= sunset <= twilight_evening, as whole seconds.
InstantsInOrder ==
    (pc = "done" /\ InRange) =>
        /\ Sec(daylight.twilight_morning) <= Sec(daylight.sunrise)
        /\ Sec(daylight.sunrise) <= Sec(daylight.noon)
        /\ Sec(daylight.noon) <= Sec(daylight.sunset)
        /\ Sec(daylight.sunset) <= Sec(daylight.twilight_evening)

\* A southern day with twilight, sunrise, noon and sunset all apart.
OrdinarySouthernDay ==
    /\ pc = "done"
    /\ InRange
    /\ IsSignNegative(latitude)
    /\ Sec(daylight.twilight_morning) < Sec(daylight.sunrise)
    /\ Sec(daylight.sunrise) < Sec(daylight.noon)
    /\ Sec(daylight.noon) < Sec(daylight.sunset)
    /\ Sec(daylight.sunset) < Sec(daylight.twilight_evening)

\* The product whose clamp decides the sunrise hour angle.
SunriseProduct == AngleProduct(locals.lat_rad, locals.delta, Df0)

\* C2: daylength is a number of seconds in [0, 86400]; it is 0 where the
\* product tan(declination + offset) * tan(latitude) is at most -1 and 86400
\* where it is at least 1.
DaylengthInRange ==
    pc = "done" =>
        /\ I64Leq(I64FromInt(0), daylight.daylength)
        /\ I64Leq(daylight.daylength, I64FromInt(SecsPerDay))
        /\ FLe(SunriseProduct, FromInt(-1)) => daylight.daylength = I64FromInt(0)
        /\ FLe(FromInt(1), SunriseProduct) =>
               daylight.daylength = I64FromInt(SecsPerDay)

\* A polar day: the product is clamped from above.
PolarDay ==
    /\ pc = "done"
    /\ FLe(FromInt(1), SunriseProduct)
    /\ daylight.daylength = I64FromInt(SecsPerDay)

\* C3: for every finite latitude and longitude calculate_daylight returns a
\* Daylight: no sum midnight.sec + (hours * 3600) as i64 overflows, in a
\* build that checks overflow (a panic) or in one that does not (a wrapped
\* second).
CalculateDaylightTotal ==
    /\ pc # "panicked"
    /\ pc = "done" => SumsFit(locals)

\* The second a result instant lies after the midnight reference.
Offset(ts) == I64ToInt(I64Diff(ts.sec, locals.tsmidnight.sec))

\* s is the product p cut toward zero: the integer next to p on the side of 0.
Truncates(s, p) ==
    IF IsSignNegative(p)
    THEN FLt(FromInt(s - 1), p) /\ FLe(p, FromInt(s))
    ELSE FLe(FromInt(s), p) /\ FLt(p, FromInt(s + 1))

\* C4, as the code has it: for a latitude in [-90, 90] and a longitude in
\* [-180, 180] each instant is the midnight second plus hours * 3600
\* truncated toward zero, with nsec = 0.
InstantsTruncated ==
    (pc = "done" /\ InRange) =>
        \A ih \in InstantHours :
            /\ ih[1].nsec = 0
            /\ Truncates(Offset(ih[1]), FMul(ih[2], SECS_IN_HOUR))

\* C4, as stated: each instant is the midnight second plus hours * 3600
\* rounded to the nearest second, with nsec = 0.
InstantsRounded ==
    (pc = "done" /\ InRange) =>
        \A ih \in InstantHours :
            /\ ih[1].nsec = 0
            /\ FLe(FAbs(FSub(FMul(ih[2], SECS_IN_HOUR), FromInt(Offset(ih[1])))),
                   Lit(5, 1))

\* A negative twilight hour whose product lies more than half a second
\* below its whole second: truncation moved it up, rounding would not.
TwilightCutUp ==
    /\ pc = "done"
    /\ InRange
    /\ IsSignNegative(locals.twam)
    /\ FLt(FSub(FMul(locals.twam, SECS_IN_HOUR),
                FromInt(Offset(daylight.twilight_morning))),
           FNeg(Lit(5, 1)))

\* The UTC fields of the instant the input moment denotes.
UtcOfInstant == at_utc([sec |-> I64FromInt(instant), nsec |-> 0])

\* C5: the result is the result for the UTC fields of the input's instant,
\* whatever the offset of the input, and the instants are measured from
\* 00:00:00 UTC of the UTC date of that instant.
OnlyTheInstantMatters ==
    pc = "done" =>
        /\ locals.utc = UtcOfInstant
        /\ Sec(locals.tsmidnight) = (instant \div SecsPerDay) * SecsPerDay
        /\ daylight = calculate_daylight(UtcOfInstant, latitude, longitude)

\* An input moment of another zone whose local date is not the UTC date.
LocalDateDiffers ==
    /\ pc = "done"
    /\ date.tm_utcoff # 0
    /\ date.tm_mday # locals.utc.tm_mday

\* What rounding may move the altitude by, in degrees: 2^-16.
AltitudeTolerance == <<2^(MantBits - 1), -15 - MantBits>>

\* C6: sun_altitude is 90 - |latitude - declination| degrees and is at most
\* 90 degrees.
AltitudeFormula ==
    pc = "done" =>
        /\ FLe(daylight.sun_altitude, FromInt(90))
        /\ FLe(FAbs(FSub(daylight.sun_altitude,
                         FSub(FromInt(90),
                              FAbs(FSub(latitude, daylight.declination))))),
               AltitudeTolerance)

\* A latitude south of the declination: the folded branch.
SouthOfDeclination ==
    /\ pc = "done"
    /\ FLt(locals.lat_rad, locals.delta)
    /\ FLt(FromInt(60), daylight.sun_altitude)

\* C7: fnrange returns r with 0 <= r < 2 pi.
FnrangeInRange ==
    pc = "done" =>
        /\ ~IsSignNegative(result)
        /\ FLt(result, FMul(PI, FromInt(2)))

\* C8: where the sunrise and the twilight hour angle are both 0, the five
\* instants are one instant and daylength is 0.
PolarNightCollapses ==
    (pc = "done" /\ locals.ha = FZero /\ locals.hb = FZero) =>
        /\ \A ih \in InstantHours : ih[1] = daylight.sunrise
        /\ daylight.daylength = I64FromInt(0)

\* A polar night away from the pole.
PolarNight ==
    /\ pc = "done"
    /\ locals.ha = FZero
    /\ locals.hb = FZero
    /\ FLt(FAbs(latitude), FromInt(90))
    /\ daylight.noon = daylight.twilight_evening

\* C9: calculate_angle(-lat, -declin, offset) = calculate_angle(lat, declin,
\* offset).
AngleMirrored ==
    pc = "done" =>
        result = calculate_angle(FNeg(args[1]), FNeg(args[2]), args[3])

\* A southern latitude whose hour angle is not clamped.
SouthernAngle ==
    /\ pc = "done"
    /\ IsSignNegative(args[1])
    /\ args[2] # FZero
    /\ FLt(FZero, result)
    /\ FLt(result, PI)

\* sunset.sec - sunrise.sec - daylength
DaylengthGap ==
    I64Diff(I64Diff(daylight.sunset.sec, daylight.sunrise.sec),
            daylight.daylength)

WithinOne(d) == I64Leq(I64FromInt(-1), d) /\ I64Leq(d, I64FromInt(1))

\* C10, as stated: for every input sunset.sec - sunrise.sec and daylength
\* differ by at most a second.
DaylengthAgrees == pc = "done" => WithinOne(DaylengthGap)

\* C10, for the inputs it holds of: a latitude in [-90, 90] and a longitude
\* in [-180, 180].
DaylengthAgreesInRange == (pc = "done" /\ InRange) => WithinOne(DaylengthGap)

\* A day in range whose daylength is a second off the instants.
DaylengthOneOff ==
    /\ pc = "done"
    /\ InRange
    /\ DaylengthGap \in {I64FromInt(-1), I64FromInt(1)}
====
